---- MODULE Spec2Model ----
(***************************************************************************)
(* Model of osmi/Writer.hpp: the abstract base class Writer that owns one  *)
(* OGR data source and one layer, installs the field schema, creates       *)
(* features and commits the layer's transaction every 10001 features.      *)
(*                                                                         *)
(* The process is single threaded.  One step of the model is one call of   *)
(* a Writer member function (constructor, destructor, create_fields,       *)
(* create_feature, catch_geometry_error), run to completion, with every    *)
(* library call it issues recorded, in order, in last.calls.               *)
(***************************************************************************)
EXTENDS Integers, Sequences, FiniteSets, TLC

(* ------------------------------ bounds -------------------------------- *)
\* writers constructed in one process
MaxWriters == 2
\* distinct output directories the writers of one process name
MaxDirs == 2
\* features one writer creates (two batch commits and a partial batch)
MaxFeatures == 20003
\* features a writer has created up to which calls of create_fields and
\* operations on other writers are interleaved with its feature stream;
\* beyond it the stream continues for a writer in bulk (see Bulk)
MaxSideFeatures == 1
\* length of the field_configurations vector passed to create_fields
MaxFields == 2
\* calls of create_fields on one writer
MaxFieldsCalls == 2
\* ids of the ways handed to catch_geometry_error
MaxWayId == 1

(* ------------------------- program constants -------------------------- *)
\* Writer.hpp:108  num_features > 10000
BatchLimit == 10000
\* num_features is an unsigned int (Writer.hpp:89): it wraps at 2^32, which no
\* run of at most MaxFeatures features reaches, so num_features++ is n + 1.

Writers == 1 .. MaxWriters
\* output directory names given to the constructor, numbered in the order in
\* which the constructions of the process first name them
DirNames == 1 .. MaxDirs
WayIds == 1 .. MaxWayId

VARIABLES
    writers,                 \* writers[w]: the fields of Writer object w and its layer
    is_output_dir_written,   \* static bool Writer::is_output_dir_written
    fsDirs,                  \* directories this process has created with mkdir
    mkdirs,                  \* the directories mkdir has been called with, in order
    exited,                  \* <<status>> once exit(status) has been called, else << >>
    last,                    \* the member function that ran last: its arguments (and the
                             \* environment's answers), its calls and its diagnostics
    threads                  \* threads[t]: where thread t is in the constructor it runs,
                             \* and the constructor's arguments (locals of that thread)

vars == <<writers, is_output_dir_written, fsDirs, mkdirs, exited, last, threads>>

(* --------------------- the OGR layer / data source -------------------- *)
\* The layer and the data source behind it, as far as the writer drives it:
\*   fields      CreateField calls that succeeded
\*   txOpen      a transaction started by StartTransaction is open
\*   txFeatures  features created inside the open transaction
\*   committed   features inside transactions that were committed
\*   direct      features created while no transaction was open
\*   maxTx       size of the largest transaction committed so far
\*   nStart      StartTransaction calls received
\*   nCommit     CommitTransaction calls received
\*   rejected    StartTransaction calls refused because a transaction was open,
\*               and CommitTransaction calls refused because none was
\*   released    DestroyDataSource calls on the data source
\*   lost        features of a transaction still open at the release
\*   name        the layer name given to CreateLayer
NewLayer(name) ==
    [name |-> name, fields |-> 0, txOpen |-> FALSE, txFeatures |-> 0, committed |-> 0,
     direct |-> 0, maxTx |-> 0, nStart |-> 0, nCommit |-> 0, rejected |-> 0,
     released |-> 0, lost |-> 0]

Max(a, b) == IF a >= b THEN a ELSE b

OGRCreateField(L) == [L EXCEPT !.fields = @ + 1]

OGRCreateFeature(L) ==
    IF L.txOpen THEN [L EXCEPT !.txFeatures = @ + 1]
                ELSE [L EXCEPT !.direct = @ + 1]

OGRStartTransaction(L) ==
    IF L.txOpen THEN [L EXCEPT !.nStart = @ + 1, !.rejected = @ + 1]
                ELSE [L EXCEPT !.nStart = @ + 1, !.txOpen = TRUE, !.txFeatures = 0]

OGRCommitTransaction(L) ==
    IF L.txOpen
        THEN [L EXCEPT !.nCommit = @ + 1, !.txOpen = FALSE, !.txFeatures = 0,
                       !.committed = @ + L.txFeatures,
                       !.maxTx = Max(@, L.txFeatures)]
        ELSE [L EXCEPT !.nCommit = @ + 1, !.rejected = @ + 1]

OGRDestroyDataSource(L) ==
    [L EXCEPT !.released = @ + 1, !.txOpen = FALSE, !.txFeatures = 0,
              !.lost = @ + (IF L.txOpen THEN L.txFeatures ELSE 0)]

(* --------------------------- a Writer object -------------------------- *)
\* m_data_source == NULL
NullDataSource == << >>
\* m_layer == nullptr (Writer.hpp:16)
NullLayer == NewLayer("")

\* state: "none" (not constructed), "alive", "destroyed".
\* m_layer_name is a member no constructor initialises: an empty std::string.
\* created, commits, fieldsCalls, lateFields record what has been done to the
\* writer: features created by create_feature, commits issued by
\* maybe_commit_transaction, calls of create_fields, and whether create_fields
\* was called after a feature had been created.
NoWriter ==
    [state |-> "none", m_use_transaction |-> FALSE, m_data_source |-> NullDataSource,
     m_layer |-> NullLayer, m_layer_name |-> "", num_features |-> 0,
     created |-> 0, commits |-> 0, fieldsCalls |-> 0, lateFields |-> FALSE]

\* A running member function of object W: the object, the process-wide state
\* it reads and writes, the library calls issued so far, the diagnostics
\* written to std::cerr, and whether exit(1) was called.
Ctx(W) ==
    [w |-> W, is_output_dir_written |-> is_output_dir_written,
     fsDirs |-> fsDirs, mkdirs |-> mkdirs,
     calls |-> << >>, diag |-> << >>, exit |-> FALSE]

Call(X, c) == [X EXCEPT !.calls = Append(@, c)]

\* std::cerr << ... ; exit(1);
Fatal(X, msg) == [X EXCEPT !.diag = Append(@, msg), !.exit = TRUE]

(* ------------------------- construction (14-29) ----------------------- *)
\* env: the step of one construction at which the environment fails it; the
\* first failure ends the process, so one failing step describes a construction:
\*   "driver"  GetDriverByName does not find the SQLite driver
\*   "cwd"     getcwd fails
\*   "mkdir"   mkdir is refused (it also fails, EEXIST, for a directory this
\*             process has created before)
\*   "ds"      CreateDataSource cannot create the file (otherwise the directory
\*             exists, made by this process or there before it, and is writable)
\*   "layer"   CreateLayer fails
\*   "none"    every step succeeds
Envs == {"none", "driver", "cwd", "mkdir", "ds", "layer"}

create_dir(X, dir, ok) ==
    LET X1 == [Call(X, "mkdir") EXCEPT !.mkdirs = Append(@, dir)]
    IN  IF ok /\ dir \notin X.fsDirs
            THEN [X1 EXCEPT !.fsDirs = @ \cup {dir}]
            ELSE Fatal(X1, <<"Could not create directory", dir>>)

\* mutant: the directory is created whatever is_output_dir_written says
maybe_create_dir_always(X, dir, ok) ==
    create_dir([X EXCEPT !.is_output_dir_written = TRUE], dir, ok)

\* mutant: the directory is created unless this process has created that directory
maybe_create_dir_per_dir(X, dir, ok) ==
    IF dir \notin X.fsDirs
        THEN create_dir([X EXCEPT !.is_output_dir_written = TRUE], dir, ok)
        ELSE X

maybe_create_dir(X, dir, ok) ==
    IF ~X.is_output_dir_written
        THEN create_dir([X EXCEPT !.is_output_dir_written = TRUE], dir, ok)
        ELSE X

get_current_dir(X, ok) ==
    LET X1 == Call(X, "getcwd")
    IN  IF ok THEN X1 ELSE Fatal(X1, <<"ERROR: Could not get current directory">>)

\* mutant: the directory is resolved and created before the driver is acquired
get_data_source_dir_first(X, dir_name, layer_name, env) ==
    LET X1 == get_current_dir(X, env # "cwd")
        X2 == maybe_create_dir(X1, dir_name, env # "mkdir")
        X3 == Call(X2, "GetDriverByName")
        X4 == Call(X3, "CreateDataSource")
    IN  IF X1.exit THEN X1
        ELSE IF X2.exit THEN X2
        ELSE IF env = "driver" THEN Fatal(X3, <<"SQLite driver not available">>)
        ELSE IF env # "ds"
            THEN [X4 EXCEPT !.w.m_data_source = <<dir_name, layer_name>>]
            ELSE [X4 EXCEPT !.w.m_data_source = NullDataSource]

\* The returned pointer is stored in m_data_source by the constructor (line 18).
get_data_source(X, dir_name, layer_name, env) ==
    LET X1 == Call(X, "GetDriverByName")
        X2 == get_current_dir(X1, env # "cwd")
        X3 == maybe_create_dir(X2, dir_name, env # "mkdir")
        X4 == Call(X3, "CreateDataSource")
    IN  IF env = "driver" THEN Fatal(X1, <<"SQLite driver not available">>)
        ELSE IF X2.exit THEN X2
        ELSE IF X3.exit THEN X3
        ELSE IF env # "ds"
            THEN [X4 EXCEPT !.w.m_data_source = <<dir_name, layer_name>>]
            ELSE [X4 EXCEPT !.w.m_data_source = NullDataSource]

create_layer(X, layer_name, ok) ==
    LET X1 == Call(X, "CreateLayer")
    IN  IF ok THEN [X1 EXCEPT !.w.m_layer = NewLayer(layer_name)]
              ELSE Fatal(X1, <<"Creation of layer failed", layer_name>>)

\* mutant: the constructor does not test the data source it was given
WriterCtor_no_null_check(X, dirname, layer_name, use_transaction, env) ==
    LET X0 == [X EXCEPT !.w.m_use_transaction = use_transaction,
                        !.w.m_layer = NullLayer]
        X1 == get_data_source(X0, dirname, layer_name, env)
        X2 == create_layer(X1, layer_name, env # "layer")
    IN  IF X1.exit THEN X1
        ELSE IF X2.exit THEN X2
        ELSE [X2 EXCEPT !.w.state = "alive"]

WriterCtor(X, dirname, layer_name, use_transaction, env) ==
    LET X0 == [X EXCEPT !.w.m_use_transaction = use_transaction,
                        !.w.m_layer = NullLayer]
        X1 == get_data_source(X0, dirname, layer_name, env)
        X2 == create_layer(X1, layer_name, env # "layer")
    IN  IF X1.exit THEN X1
        ELSE IF X1.w.m_data_source = NullDataSource
            THEN Fatal(X1, <<"Creation of data source failed", layer_name>>)
        ELSE IF X2.exit THEN X2
        ELSE [X2 EXCEPT !.w.state = "alive"]

(* --------------------------- destruction (31-36) ---------------------- *)
\* mutant: the destructor releases the data source without the final commit
WriterDtor_no_commit(X) ==
    [Call(X, "DestroyDataSource") EXCEPT
        !.w.m_layer = OGRDestroyDataSource(@), !.w.state = "destroyed"]

\* mutant: the destructor releases the data source before it commits
WriterDtor_release_first(X) ==
    LET X1 == [Call(X, "DestroyDataSource") EXCEPT
                   !.w.m_layer = OGRDestroyDataSource(@), !.w.state = "destroyed"]
    IN  IF X.w.m_use_transaction
            THEN [Call(X1, "CommitTransaction") EXCEPT
                      !.w.m_layer = OGRCommitTransaction(@)]
            ELSE X1

WriterDtor(X) ==
    LET X1 == IF X.w.m_use_transaction
                  THEN [Call(X, "CommitTransaction") EXCEPT
                            !.w.m_layer = OGRCommitTransaction(@)]
                  ELSE X
    IN  [Call(X1, "DestroyDataSource") EXCEPT
            !.w.m_layer = OGRDestroyDataSource(@), !.w.state = "destroyed"]

(* --------------------------- create_fields (56-70) -------------------- *)
\* field_configurations is the vector of field names (type and width do not
\* affect the control flow and are left out); failAt is the position
\* whose CreateField fails (0: none fails).  The loop from position i on.
\* mutant: a failed CreateField is reported and the loop goes on
RECURSIVE create_fields_loop_goes_on(_, _, _, _)
create_fields_loop_goes_on(X, field_configurations, i, failAt) ==
    IF i > Len(field_configurations) THEN X
    ELSE LET X1 == Call(X, "CreateField")
         IN  IF i = failAt
                 THEN create_fields_loop_goes_on(
                          [X1 EXCEPT !.diag = Append(@, <<"Creating field failed",
                                                 field_configurations[i], X.w.m_layer_name>>)],
                          field_configurations, i + 1, failAt)
                 ELSE create_fields_loop_goes_on(
                          [X1 EXCEPT !.w.m_layer = OGRCreateField(@)],
                          field_configurations, i + 1, failAt)

RECURSIVE create_fields_loop(_, _, _, _)
create_fields_loop(X, field_configurations, i, failAt) ==
    IF i > Len(field_configurations) THEN X
    ELSE LET X1 == Call(X, "CreateField")
         IN  IF i = failAt
                 THEN Fatal(X1, <<"Creating field failed",
                                  field_configurations[i], X.w.m_layer_name>>)
                 ELSE create_fields_loop(
                          [X1 EXCEPT !.w.m_layer = OGRCreateField(@)],
                          field_configurations, i + 1, failAt)

create_fields(X, field_configurations, failAt) ==
    LET X0 == [X EXCEPT !.w.fieldsCalls = @ + 1,
                        !.w.lateFields = @ \/ X.w.created > 0]
        X1 == create_fields_loop(X0, field_configurations, 1, failAt)
    IN  IF X1.exit THEN X1
        ELSE IF X1.w.m_use_transaction
            THEN [Call(X1, "StartTransaction") EXCEPT
                      !.w.m_layer = OGRStartTransaction(@)]
        ELSE X1

(* --------------------- create_feature (72-80, 106-113) ---------------- *)
\* mutant: the commit fires when the counter reaches the limit (>= for >)
maybe_commit_transaction_ge(X) ==
    LET n == X.w.num_features + 1
    IN  IF X.w.m_use_transaction /\ n >= BatchLimit
            THEN [Call(Call(X, "CommitTransaction"), "StartTransaction") EXCEPT
                      !.w.m_layer = OGRStartTransaction(OGRCommitTransaction(@)),
                      !.w.num_features = 0,
                      !.w.commits = @ + 1]
            ELSE [X EXCEPT !.w.num_features = n]

\* mutant: the commit fires one feature later (> 10001 for > 10000)
maybe_commit_transaction_late(X) ==
    LET n == X.w.num_features + 1
    IN  IF X.w.m_use_transaction /\ n > BatchLimit + 1
            THEN [Call(Call(X, "CommitTransaction"), "StartTransaction") EXCEPT
                      !.w.m_layer = OGRStartTransaction(OGRCommitTransaction(@)),
                      !.w.num_features = 0,
                      !.w.commits = @ + 1]
            ELSE [X EXCEPT !.w.num_features = n]

\* mutant: the batch is committed and no new transaction is started
maybe_commit_transaction_no_restart(X) ==
    LET n == X.w.num_features + 1
    IN  IF X.w.m_use_transaction /\ n > BatchLimit
            THEN [Call(X, "CommitTransaction") EXCEPT
                      !.w.m_layer = OGRCommitTransaction(@),
                      !.w.num_features = 0,
                      !.w.commits = @ + 1]
            ELSE [X EXCEPT !.w.num_features = n]

\* mutant: the batch commit does not look at m_use_transaction
maybe_commit_transaction_always(X) ==
    LET n == X.w.num_features + 1
    IN  IF n > BatchLimit
            THEN [Call(Call(X, "CommitTransaction"), "StartTransaction") EXCEPT
                      !.w.m_layer = OGRStartTransaction(OGRCommitTransaction(@)),
                      !.w.num_features = 0,
                      !.w.commits = @ + 1]
            ELSE [X EXCEPT !.w.num_features = n]

\* mutant: the batch commit does not reset the counter
maybe_commit_transaction_no_reset(X) ==
    LET n == X.w.num_features + 1
    IN  IF X.w.m_use_transaction /\ n > BatchLimit
            THEN [Call(Call(X, "CommitTransaction"), "StartTransaction") EXCEPT
                      !.w.m_layer = OGRStartTransaction(OGRCommitTransaction(@)),
                      !.w.num_features = n,
                      !.w.commits = @ + 1]
            ELSE [X EXCEPT !.w.num_features = n]

maybe_commit_transaction(X) ==
    LET n == X.w.num_features + 1
    IN  IF X.w.m_use_transaction /\ n > BatchLimit
            THEN [Call(Call(X, "CommitTransaction"), "StartTransaction") EXCEPT
                      !.w.m_layer = OGRStartTransaction(OGRCommitTransaction(@)),
                      !.w.num_features = 0,
                      !.w.commits = @ + 1]
            ELSE [X EXCEPT !.w.num_features = n]

\* mutant: the transaction bookkeeping runs before the feature is created
create_feature_commit_first(X, ok) ==
    LET X1 == maybe_commit_transaction(X)
        X2 == Call(X1, "CreateFeature")
    IN  IF ~ok THEN Fatal(Call(X, "CreateFeature"), <<"Failed to create feature">>)
        ELSE [Call(X2, "DestroyFeature") EXCEPT
                  !.w.m_layer = OGRCreateFeature(@),
                  !.w.created = @ + 1]

\* mutant: the result of CreateFeature is ignored
create_feature_ignore_error(X, ok) ==
    maybe_commit_transaction(
        [Call(Call(X, "CreateFeature"), "DestroyFeature") EXCEPT
             !.w.m_layer = IF ok THEN OGRCreateFeature(@) ELSE @,
             !.w.created = IF ok THEN @ + 1 ELSE @])

\* ok: CreateFeature returns OGRERR_NONE
create_feature(X, ok) ==
    LET X1 == Call(X, "CreateFeature")
    IN  IF ~ok THEN Fatal(X1, <<"Failed to create feature">>)
        ELSE maybe_commit_transaction(
                 [Call(X1, "DestroyFeature") EXCEPT
                      !.w.m_layer = OGRCreateFeature(@),
                      !.w.created = @ + 1])

(* ----------------------- catch_geometry_error (82-84) ----------------- *)
\* mutant: the skipped way is counted like a created feature
catch_geometry_error_counts(X, way_id) ==
    maybe_commit_transaction(
        [X EXCEPT !.diag = Append(@, <<"Ignoring illegal geometry for way with id", way_id>>)])

catch_geometry_error(X, way_id) ==
    [X EXCEPT !.diag = Append(@, <<"Ignoring illegal geometry for way with id", way_id>>)]

(* ------------------------------ the process --------------------------- *)
LayerNames == {"roads"}

\* the vectors create_fields is called with: field i of a schema is named i
FieldLists == {[i \in 1 .. n |-> i] : n \in 0 .. MaxFields}

\* Two threads of the process, each constructing one writer (thread t, writer t).
Threads == {1, 2}

Init ==
    /\ writers = [w \in Writers |-> NoWriter]
    /\ is_output_dir_written = FALSE
    /\ fsDirs = {}
    /\ mkdirs = << >>
    /\ exited = << >>
    /\ last = [op |-> "start", w |-> 0, arg |-> << >>, calls |-> << >>, diag |-> << >>]
    /\ threads = [t \in Threads |-> [at |-> "idle", dirname |-> 0, layer_name |-> ""]]

Running == exited = << >>

\* The member function `op` of writer w, called with arg, has run and left
\* the context X.
Return(op, w, arg, X) ==
    /\ writers' = [writers EXCEPT ![w] = X.w]
    /\ is_output_dir_written' = X.is_output_dir_written
    /\ fsDirs' = X.fsDirs
    /\ mkdirs' = X.mkdirs
    /\ exited' = IF X.exit THEN <<1>> ELSE exited
    /\ last' = [op |-> op, w |-> w, arg |-> arg, calls |-> X.calls, diag |-> X.diag]
    /\ threads' = threads

\* The writers of a process share nothing but is_output_dir_written, which only
\* the constructor touches.  The feeder's calls (create_fields, create_feature,
\* catch_geometry_error) are explored on a writer that is alone in the process;
\* several writers of one process are constructed and destroyed, in any order,
\* before any of them is fed.
Solo(w) == \A v \in Writers \ {w} : writers[v].state = "none"

Unfed == \A v \in Writers : writers[v].fieldsCalls = 0 /\ writers[v].created = 0

\* Only a writer on which create_fields has been called at most once, and
\* before its first feature, is fed more than MaxSideFeatures features.
Bulk(w) == writers[w].fieldsCalls <= 1 /\ ~writers[w].lateFields

Construct(w) ==
    /\ Running
    /\ writers[w].state = "none"
    /\ \A v \in Writers : v < w => writers[v].state # "none"
    /\ Unfed
    /\ \E dirname \in {d \in DirNames : d <= w}, layer_name \in LayerNames,
          use_transaction \in BOOLEAN, env \in Envs :
          Return("Writer", w, <<dirname, layer_name, use_transaction, env>>,
                 WriterCtor(Ctx(writers[w]), dirname, layer_name, use_transaction, env))

Destroy(w) ==
    /\ Running
    /\ writers[w].state = "alive"
    /\ Return("~Writer", w, << >>, WriterDtor(Ctx(writers[w])))

CreateFields(w) ==
    /\ Running
    /\ writers[w].state = "alive"
    /\ Solo(w)
    /\ writers[w].fieldsCalls < MaxFieldsCalls
    /\ writers[w].created <= MaxSideFeatures
    /\ \E fc \in FieldLists, failAt \in 0 .. MaxFields :
          /\ failAt <= Len(fc)
          /\ Return("create_fields", w, <<fc, failAt>>,
                 create_fields(Ctx(writers[w]), fc, failAt))

CreateFeature(w) ==
    /\ Running
    /\ writers[w].state = "alive"
    /\ Solo(w)
    /\ writers[w].created < MaxFeatures
    /\ writers[w].created < MaxSideFeatures \/ Bulk(w)
    /\ \E ok \in BOOLEAN :
          Return("create_feature", w, <<ok>>, create_feature(Ctx(writers[w]), ok))

CatchGeometryError(w) ==
    /\ Running
    /\ writers[w].state = "alive"
    /\ Solo(w)
    /\ \E way_id \in WayIds :
          Return("catch_geometry_error", w, <<way_id>>,
                 catch_geometry_error(Ctx(writers[w]), way_id))

Next ==
    \E w \in Writers :
        \/ Construct(w)
        \/ Destroy(w)
        \/ CreateFields(w)
        \/ CreateFeature(w)
        \/ CatchGeometryError(w)

Spec == Init /\ [][Next]_vars

(* ------------- two constructions by two threads (14-29, 115-165) ------- *)
\* The constructor, cut at its library calls and at its two accesses to the
\* static flag, which no lock or atomic protects (153-158, 168).  The racing
\* read of line 154 returns the value the flag has when the step runs, that is
\* the value before or after the other thread's write of line 155, whichever
\* way the two are ordered.  threads[t].at is the step thread t runs next.
ThreadReturn(t, at, X) ==
    /\ writers' = [writers EXCEPT ![t] = X.w]
    /\ is_output_dir_written' = X.is_output_dir_written
    /\ fsDirs' = X.fsDirs
    /\ mkdirs' = X.mkdirs
    /\ exited' = IF X.exit THEN <<1>> ELSE exited
    /\ threads' = [threads EXCEPT ![t].at = IF X.exit THEN "exit" ELSE at]
    /\ last' = [op |-> "Writer", w |-> t,
                arg |-> <<threads[t].dirname, threads[t].layer_name,
                          X.w.m_use_transaction, threads[t].at>>,
                calls |-> X.calls, diag |-> X.diag]

At(t, at) == Running /\ threads[t].at = at

\* lines 14-16: the call and the member initialisers
ThreadEnter(t) ==
    /\ At(t, "idle")
    /\ writers[t].state = "none"
    /\ \E dirname \in DirNames, layer_name \in LayerNames, use_transaction \in BOOLEAN :
          /\ writers' = [writers EXCEPT ![t].m_use_transaction = use_transaction,
                                        ![t].m_layer = NullLayer]
          /\ threads' = [threads EXCEPT ![t] = [at |-> "GetDriverByName",
                                                dirname |-> dirname,
                                                layer_name |-> layer_name]]
          /\ last' = [op |-> "Writer", w |-> t,
                      arg |-> <<dirname, layer_name, use_transaction, "idle">>,
                      calls |-> << >>, diag |-> << >>]
          /\ UNCHANGED <<is_output_dir_written, fsDirs, mkdirs, exited>>

\* lines 117-121
ThreadGetDriver(t) ==
    /\ At(t, "GetDriverByName")
    /\ \E ok \in BOOLEAN :
          LET X1 == Call(Ctx(writers[t]), "GetDriverByName")
          IN  ThreadReturn(t, "getcwd",
                  IF ok THEN X1 ELSE Fatal(X1, <<"SQLite driver not available">>))

\* line 128
ThreadGetCwd(t) ==
    /\ At(t, "getcwd")
    /\ \E ok \in BOOLEAN :
          ThreadReturn(t, "test", get_current_dir(Ctx(writers[t]), ok))

\* line 154: the read of the flag
ThreadTestFlag(t) ==
    /\ At(t, "test")
    /\ ThreadReturn(t, IF ~is_output_dir_written THEN "set" ELSE "CreateDataSource",
                    Ctx(writers[t]))

\* line 155: the write of the flag
ThreadSetFlag(t) ==
    /\ At(t, "set")
    /\ ThreadReturn(t, "mkdir",
                    [Ctx(writers[t]) EXCEPT !.is_output_dir_written = TRUE])

\* line 156: create_dir
ThreadCreateDir(t) ==
    /\ At(t, "mkdir")
    /\ \E ok \in BOOLEAN :
          ThreadReturn(t, "CreateDataSource",
                       create_dir(Ctx(writers[t]), threads[t].dirname, ok))

\* lines 134 and 18-23
ThreadCreateDataSource(t) ==
    /\ At(t, "CreateDataSource")
    /\ \E ok \in BOOLEAN :
          LET X1 == Call(Ctx(writers[t]), "CreateDataSource")
          IN  ThreadReturn(t, "CreateLayer",
                  IF ok THEN [X1 EXCEPT !.w.m_data_source =
                                  <<threads[t].dirname, threads[t].layer_name>>]
                        ELSE Fatal(X1, <<"Creation of data source failed",
                                         threads[t].layer_name>>))

\* lines 28 and 93-104
ThreadCreateLayer(t) ==
    /\ At(t, "CreateLayer")
    /\ \E ok \in BOOLEAN :
          LET X1 == create_layer(Ctx(writers[t]), threads[t].layer_name, ok)
          IN  ThreadReturn(t, "done",
                  IF X1.exit THEN X1 ELSE [X1 EXCEPT !.w.state = "alive"])

NextThreads ==
    \E t \in Threads :
        \/ ThreadEnter(t)
        \/ ThreadGetDriver(t)
        \/ ThreadGetCwd(t)
        \/ ThreadTestFlag(t)
        \/ ThreadSetFlag(t)
        \/ ThreadCreateDir(t)
        \/ ThreadCreateDataSource(t)
        \/ ThreadCreateLayer(t)

SpecThreads == Init /\ [][NextThreads]_vars

(* ============================== claims ================================ *)
\* the number of times the last member function issued the library call c
CountCalls(c) == Cardinality({i \in DOMAIN last.calls : last.calls[i] = c})

Issued(c) == CountCalls(c) > 0

\* the last member function was `op` on writer w
Ran(op, w) == last.op = op /\ last.w = w

\* Transactions are enabled on writer w and create_fields was called on it
\* exactly once, successfully, before its first feature.
Orderly(w) ==
    /\ writers[w].state # "none"
    /\ writers[w].m_use_transaction
    /\ writers[w].fieldsCalls = 1
    /\ ~writers[w].lateFields
    /\ writers[w].m_layer.nStart >= 1

\* features per committed batch: the commit fires when the counter exceeds BatchLimit
BatchSize == BatchLimit + 1

(* C1: with transactions enabled, after create_fields once, N successful    *)
(* create_feature calls and the destruction, maybe_commit_transaction has    *)
(* issued floor(N / 10001) commits, the k-th during feature k * 10001, and   *)
(* the destructor exactly one more, whatever the counter.                    *)
C1_CommitCount ==
    \A w \in Writers : Orderly(w) =>
        /\ writers[w].commits = writers[w].created \div BatchSize
        /\ (Ran("create_feature", w) /\ last.diag = << >>) =>
               /\ Issued("CommitTransaction") <=> writers[w].created % BatchSize = 0
               /\ CountCalls("CommitTransaction") <= 1
        /\ writers[w].state = "alive" =>
               writers[w].m_layer.nCommit = writers[w].commits
        /\ writers[w].state = "destroyed" =>
               writers[w].m_layer.nCommit = writers[w].commits + 1
        /\ Ran("~Writer", w) => CountCalls("CommitTransaction") = 1

\* N = 10005: two commits in total, one of them the destructor's
C1_Witness ==
    \E w \in Writers :
        /\ Orderly(w) /\ writers[w].state = "destroyed"
        /\ writers[w].created = BatchSize + 4
        /\ writers[w].m_layer.nCommit = 2

(* C2 as stated: while use_transaction is enabled the open transaction       *)
(* covers at most 10,000 features, and no transaction is committed holding   *)
(* more than 10,000 features.                                                *)
C2_AtMostBatchLimit ==
    \A w \in Writers : writers[w].m_use_transaction =>
        /\ writers[w].m_layer.txFeatures <= BatchLimit
        /\ writers[w].m_layer.maxTx <= BatchLimit

(* C2, amended: while use_transaction is enabled the open transaction covers *)
(* at most 10,000 features between two writer operations, and a transaction  *)
(* is committed holding at most 10,001 features: the 10,001st feature        *)
(* triggers the commit and is part of the committed transaction.             *)
C2_AtMostBatchSize ==
    \A w \in Writers : writers[w].m_use_transaction =>
        /\ writers[w].m_layer.txFeatures <= BatchLimit
        /\ writers[w].m_layer.maxTx <= BatchSize
        /\ writers[w].m_layer.txOpen =>
               writers[w].m_layer.txFeatures <= writers[w].num_features
        /\ (Ran("create_feature", w) /\ Issued("CommitTransaction")
               /\ writers[w].commits >= 2) =>
               writers[w].m_layer.maxTx = BatchSize

\* a batch commit has just committed a transaction of 10,001 features
C2_Witness ==
    \E w \in Writers :
        /\ writers[w].m_use_transaction
        /\ Ran("create_feature", w) /\ Issued("CommitTransaction")
        /\ writers[w].m_layer.maxTx = BatchSize
        /\ writers[w].m_layer.txFeatures = 0

(* C3: with transactions enabled no feature is lost or duplicated across a   *)
(* commit/restart of maybe_commit_transaction: every created feature is in   *)
(* exactly one transaction, the feature that triggers the commit is in the   *)
(* committed one, and the restarted transaction begins empty.                *)
C3_NoFeatureLostOrDuplicated ==
    \A w \in Writers : Orderly(w) =>
        /\ writers[w].created =
               writers[w].m_layer.committed + writers[w].m_layer.txFeatures
        /\ writers[w].m_layer.direct = 0
        /\ writers[w].m_layer.lost = 0
        /\ (Ran("create_feature", w) /\ Issued("CommitTransaction")) =>
               /\ last.calls = <<"CreateFeature", "DestroyFeature",
                                 "CommitTransaction", "StartTransaction">>
               /\ writers[w].m_layer.committed = writers[w].created
               /\ writers[w].m_layer.txOpen
               /\ writers[w].m_layer.txFeatures = 0
               /\ writers[w].num_features = 0

\* the second batch commit: 20,002 features created, all of them committed
C3_Witness ==
    \E w \in Writers :
        /\ Orderly(w)
        /\ Ran("create_feature", w) /\ Issued("CommitTransaction")
        /\ writers[w].commits = 2
        /\ writers[w].m_layer.committed = 2 * BatchSize

(* C4: teardown durability.  With transactions enabled, after create_fields  *)
(* and N >= 0 successful create_feature calls, the destroyed writer has all  *)
(* N features in committed transactions and none in an uncommitted one.      *)
C4_TeardownDurability ==
    \A w \in Writers : (Orderly(w) /\ writers[w].state = "destroyed") =>
        /\ writers[w].m_layer.committed = writers[w].created
        /\ writers[w].m_layer.txFeatures = 0
        /\ ~writers[w].m_layer.txOpen
        /\ writers[w].m_layer.lost = 0
        /\ writers[w].m_layer.direct = 0

\* a partial batch (fewer than 10,000 features, no batch commit) made durable
C4_Witness ==
    \E w \in Writers :
        /\ Orderly(w) /\ Ran("~Writer", w)
        /\ writers[w].commits = 0
        /\ writers[w].created = 3
        /\ writers[w].m_layer.committed = 3

(* C5: the destructor commits (when transactions are enabled) before it      *)
(* releases the data source, releases it exactly once, and nothing is issued *)
(* on the layer after the release.                                           *)
C5_DestructionOrder ==
    /\ [](\A w \in Writers :
            /\ Ran("~Writer", w) =>
                   last.calls = IF writers[w].m_use_transaction
                                    THEN <<"CommitTransaction", "DestroyDataSource">>
                                    ELSE <<"DestroyDataSource">>
            /\ writers[w].m_layer.released =
                   IF writers[w].state = "destroyed" THEN 1 ELSE 0)
    /\ [][\A w \in Writers :
             writers[w].state = "destroyed" => writers'[w] = writers[w]]_vars

\* a transaction-enabled writer with features in its open transaction is destroyed
C5_Witness ==
    \E w \in Writers :
        /\ Ran("~Writer", w) /\ writers[w].m_use_transaction
        /\ writers[w].m_layer.released = 1
        /\ writers[w].m_layer.committed > 0

(* C6: at-most-once directory creation.  Over any sequence of constructions  *)
(* mkdir is called at most once; a second writer on the same directory calls *)
(* no mkdir and is not ended by the directory existing; the flag             *)
(* is_output_dir_written starts false and never returns to false.            *)
C6_DirCreatedAtMostOnce ==
    /\ [](/\ Len(mkdirs) <= 1
          /\ is_output_dir_written <=> Len(mkdirs) = 1
          /\ last.op = "start" => ~is_output_dir_written
          /\ \A w \in Writers : (Ran("Writer", w) /\ w > 1) =>
                 /\ ~Issued("mkdir")
                 /\ \A i \in DOMAIN last.diag :
                        last.diag[i][1] # "Could not create directory")
    /\ [][is_output_dir_written => is_output_dir_written']_vars

\* a second writer has been constructed on the directory the first one created
C6_Witness ==
    /\ Ran("Writer", 2) /\ writers[2].state = "alive"
    /\ writers[1].state = "alive"
    /\ mkdirs = <<writers[2].m_data_source[1]>>
    /\ writers[1].m_data_source[1] = writers[2].m_data_source[1]

(* C7: geometry-error isolation.  catch_geometry_error writes one diagnostic *)
(* carrying the way's id and changes nothing else: no feature, no counter    *)
(* change, no transaction call, no exit; so the features and commits of a    *)
(* record sequence are those of the sequence without its degenerate ways.    *)
C7_GeometryErrorIsolation ==
    [][last'.op = "catch_geometry_error" =>
          /\ writers' = writers
          /\ exited' = exited
          /\ is_output_dir_written' = is_output_dir_written
          /\ fsDirs' = fsDirs /\ mkdirs' = mkdirs
          /\ last'.calls = << >>
          /\ last'.diag = <<<<"Ignoring illegal geometry for way with id",
                              last'.arg[1]>>>>]_vars

\* a geometry error handled when the next feature triggers the batch commit
C7_Witness ==
    \E w \in Writers :
        /\ Ran("catch_geometry_error", w)
        /\ writers[w].m_use_transaction
        /\ writers[w].num_features = BatchLimit
        /\ exited = << >>

(* C8: schema immutability.  Once the first feature of a writer has been     *)
(* created no CreateField is issued on its layer, and create_fields takes    *)
(* effect at most once per writer: a second call adds no field and starts no *)
(* transaction.                                                              *)
C8_SchemaFrozen ==
    \A w \in Writers : Ran("create_fields", w) =>
        \/ writers[w].fieldsCalls <= 1 /\ ~writers[w].lateFields
        \/ ~Issued("CreateField") /\ ~Issued("StartTransaction")

(* C9: every construction-time failure (getcwd, mkdir, SQLite driver,        *)
(* CreateDataSource, CreateLayer) ends the process with a non-zero status at *)
(* the failing step: no later step of the construction runs, the writer is   *)
(* never usable, nothing runs after the failure, and no step is retried.     *)
C9_ConstructionFailureIsFatal ==
    \A w \in Writers : Ran("Writer", w) =>
        LET env == last.arg[4]
            failed == last.diag # << >>
        IN  /\ failed <=> exited # << >>
            /\ failed => /\ exited = <<1>>
                         /\ writers[w].state = "none"
                         /\ Len(last.diag) = 1
            /\ ~failed => /\ writers[w].state = "alive"
                          /\ env \in {"none", "mkdir"}
                          /\ last.calls[Len(last.calls)] = "CreateLayer"
            /\ env = "driver" => failed /\ last.calls = <<"GetDriverByName">>
            /\ env = "cwd" => failed /\ last.calls = <<"GetDriverByName", "getcwd">>
            /\ (env = "mkdir" /\ Issued("mkdir")) =>
                   failed /\ last.calls = <<"GetDriverByName", "getcwd", "mkdir">>
            /\ env = "ds" =>
                   failed /\ last.calls[Len(last.calls)] = "CreateDataSource"
            /\ env = "layer" =>
                   failed /\ last.calls[Len(last.calls)] = "CreateLayer"
            /\ \A i \in DOMAIN last.calls : CountCalls(last.calls[i]) = 1

\* a second construction fails at CreateDataSource and ends the process
C9_Witness ==
    /\ Ran("Writer", 2) /\ last.arg[4] = "ds"
    /\ exited = <<1>>
    /\ writers[1].state = "alive" /\ writers[2].state = "none"

(* C10: a non-success result of CreateFeature ends the process with a        *)
(* non-zero status inside create_feature: the counter is not incremented,    *)
(* no CommitTransaction or StartTransaction is issued for the feature, and   *)
(* no feature is created afterwards.                                         *)
C10_FeatureFailureIsFatal ==
    /\ [][(last'.op = "create_feature" /\ ~last'.arg[1]) =>
             /\ exited' = <<1>>
             /\ writers' = writers
             /\ last'.calls = <<"CreateFeature">>]_vars
    /\ [][exited # << >> => vars' = vars]_vars

\* CreateFeature fails on the feature that would have triggered a batch commit
C10_Witness ==
    \E w \in Writers :
        /\ Ran("create_feature", w) /\ ~last.arg[1]
        /\ writers[w].m_use_transaction
        /\ writers[w].num_features = BatchLimit
        /\ exited = <<1>>

(* C11: in create_fields, when CreateField fails for the i-th descriptor the *)
(* process ends at once with a non-zero status: the descriptors after i are  *)
(* never added, StartTransaction is not called, and no feature is created on *)
(* the partly built schema.                                                  *)
C11_FieldFailureIsFatal ==
    /\ [][(last'.op = "create_fields" /\ last'.arg[2] # 0) =>
             LET w == last'.w
                 i == last'.arg[2]
             IN  /\ exited' = <<1>>
                 /\ last'.calls = [k \in 1 .. i |-> "CreateField"]
                 /\ writers'[w].m_layer.fields = writers[w].m_layer.fields + i - 1
                 /\ writers'[w].m_layer.nStart = writers[w].m_layer.nStart
                 /\ writers'[w].m_layer.txOpen = writers[w].m_layer.txOpen
                 /\ writers'[w].created = writers[w].created
                 /\ last'.diag = <<<<"Creating field failed", last'.arg[1][i],
                                     writers[w].m_layer_name>>>>]_vars
    /\ [][(exited # << >> /\ last.op = "create_fields") => vars' = vars]_vars

\* the first of two descriptors fails on a transaction-enabled writer
C11_Witness ==
    \E w \in Writers :
        /\ Ran("create_fields", w) /\ last.arg[2] = 1 /\ Len(last.arg[1]) = 2
        /\ writers[w].m_use_transaction
        /\ writers[w].m_layer.fields = 0
        /\ exited = <<1>>

(* C12: schema installation precedes the transaction.  In create_fields,     *)
(* StartTransaction is issued only after every CreateField of the list has   *)
(* succeeded, exactly once, and only when use_transaction is enabled; no     *)
(* CreateField of the call executes while a transaction started by the       *)
(* writer is open, and the counter is 0 when the first transaction opens.    *)
C12_SchemaPrecedesTransaction ==
    [][(last'.op = "create_fields" /\ last'.diag = << >>) =>
          LET w == last'.w
              n == Len(last'.arg[1])
          IN  /\ last'.calls =
                     [k \in 1 .. n |-> "CreateField"] \o
                     (IF writers[w].m_use_transaction
                          THEN <<"StartTransaction">> ELSE << >>)
              /\ n > 0 => ~writers[w].m_layer.txOpen
              /\ (writers[w].m_use_transaction /\ writers[w].m_layer.nStart = 0) =>
                     writers[w].num_features = 0]_vars

\* position of the first occurrence of call c in the last member function (0: none)
CallPos(c) ==
    IF Issued(c) THEN CHOOSE i \in DOMAIN last.calls :
                          /\ last.calls[i] = c
                          /\ \A j \in 1 .. i - 1 : last.calls[j] # c
                 ELSE 0

(* C13: with transactions enabled the transaction window follows the state   *)
(* machine: from the return of create_fields until the destructor runs a     *)
(* transaction is open between any two writer operations (each commit of     *)
(* maybe_commit_transaction is followed at once by StartTransaction, with    *)
(* the counter reset to 0, in the same call), and the window is closed only  *)
(* by the destructor's final commit.                                         *)
C13_TransactionWindow ==
    /\ [](\A w \in Writers :
            /\ (writers[w].m_use_transaction /\ writers[w].state = "alive"
                  /\ writers[w].fieldsCalls >= 1 /\ writers[w].m_layer.nStart >= 1) =>
                   writers[w].m_layer.txOpen
            /\ (Ran("create_fields", w) /\ last.diag = << >>
                  /\ writers[w].m_use_transaction) =>
                   writers[w].m_layer.txOpen
            /\ (Ran("create_feature", w) /\ Issued("CommitTransaction")) =>
                   /\ CountCalls("CommitTransaction") = 1
                   /\ CountCalls("StartTransaction") = 1
                   /\ CallPos("StartTransaction") = CallPos("CommitTransaction") + 1
                   /\ writers[w].num_features = 0
                   /\ writers[w].m_layer.txOpen)
    /\ [][\A w \in Writers :
             (writers[w].m_layer.txOpen /\ ~writers'[w].m_layer.txOpen) =>
                 /\ last'.op = "~Writer" /\ last'.w = w
                 /\ last'.calls[1] = "CommitTransaction"]_vars

\* after a batch commit the writer goes on in a new open transaction
C13_Witness ==
    \E w \in Writers :
        /\ writers[w].fieldsCalls = 1 /\ writers[w].state = "alive"
        /\ writers[w].commits = 1
        /\ writers[w].num_features = 2
        /\ writers[w].m_layer.txOpen /\ writers[w].m_layer.txFeatures = 2

(* C14: commit only when open.  For every order in which a subclass calls    *)
(* the writer's operations every CommitTransaction the writer issues is      *)
(* matched by an earlier StartTransaction of the same writer that has not    *)
(* been committed yet, and StartTransaction is never issued while a          *)
(* transaction is open: the layer has no call to refuse.                     *)
C14_CommitOnlyWhenOpen ==
    \A w \in Writers : writers[w].m_layer.rejected = 0

(* C15: with use_transaction disabled the writer never issues                *)
(* StartTransaction or CommitTransaction (in create_fields, in any number of *)
(* create_feature calls, more than 10,000 included, and in the destructor),  *)
(* every successful create_feature creates exactly one feature, and the      *)
(* counter is never reset.                                                   *)
C15_NoTransactionWhenDisabled ==
    \A w \in Writers : (writers[w].state # "none" /\ ~writers[w].m_use_transaction) =>
        /\ writers[w].m_layer.nStart = 0
        /\ writers[w].m_layer.nCommit = 0
        /\ ~writers[w].m_layer.txOpen
        /\ writers[w].commits = 0
        /\ writers[w].m_layer.direct = writers[w].created
        /\ writers[w].num_features = writers[w].created
        /\ last.w = w =>
               ~Issued("StartTransaction") /\ ~Issued("CommitTransaction")

\* more than 10,001 features written without transactions, then the destruction
C15_Witness ==
    \E w \in Writers :
        /\ ~writers[w].m_use_transaction /\ Ran("~Writer", w)
        /\ writers[w].fieldsCalls = 1
        /\ writers[w].num_features = BatchSize + 1
        /\ writers[w].m_layer.direct = BatchSize + 1

(* C16: for a writer with transactions enabled whose create_fields ran       *)
(* before its first feature, between operations num_features is within       *)
(* 0 .. 10000 and, while the writer is alive, equals the number of features  *)
(* in the open transaction; a successful create_feature adds exactly 1 to    *)
(* it, except that the call that commits leaves it at 0.                     *)
C16_CounterInvariant ==
    /\ [](\A w \in Writers :
            (/\ writers[w].m_use_transaction
             /\ writers[w].fieldsCalls >= 1 /\ ~writers[w].lateFields) =>
                /\ writers[w].num_features \in 0 .. BatchLimit
                /\ writers[w].num_features = writers[w].created % BatchSize
                /\ (writers[w].state = "alive" /\ writers[w].m_layer.txOpen) =>
                       writers[w].num_features = writers[w].m_layer.txFeatures)
    /\ [][\A w \in Writers :
            (/\ last'.op = "create_feature" /\ last'.w = w /\ exited' = << >>
             /\ writers[w].m_use_transaction
             /\ writers[w].fieldsCalls >= 1 /\ ~writers[w].lateFields) =>
                LET commit == "CommitTransaction" \in
                                  {last'.calls[k] : k \in 1 .. Len(last'.calls)}
                IN  /\ commit <=> writers[w].num_features = BatchLimit
                    /\ writers'[w].num_features =
                           IF commit THEN 0 ELSE writers[w].num_features + 1]_vars

\* the second batch commit: the counter is back at 0 after 2 * 10,001 features
C16_Witness ==
    \E w \in Writers :
        /\ Ran("create_feature", w) /\ Issued("CommitTransaction")
        /\ writers[w].m_use_transaction
        /\ writers[w].fieldsCalls = 1 /\ ~writers[w].lateFields
        /\ writers[w].created = 2 * BatchSize
        /\ writers[w].commits = 2
        /\ writers[w].num_features = 0

(* C17 (as stated): in every construction the directory is resolved (and     *)
(* created if the flag is unset) before the store driver is acquired, so a   *)
(* fatal driver failure comes only after the directory step; the layer is    *)
(* created only on an existing data source.                                  *)
C17_DirectoryBeforeDriver ==
    \A w \in Writers : Ran("Writer", w) =>
        /\ Issued("GetDriverByName") =>
               /\ Issued("getcwd")
               /\ CallPos("getcwd") < CallPos("GetDriverByName")
        /\ last.diag = <<<<"SQLite driver not available">>>> => Issued("getcwd")
        /\ Issued("CreateLayer") => writers[w].m_data_source # NullDataSource

(* C17 (amended): every construction acquires the store driver first, then   *)
(* resolves the directory (creating it and setting the flag iff the flag was *)
(* unset), then creates the data source, then exactly one layer; a fatal     *)
(* step cuts the sequence short, a driver failure before the directory is    *)
(* touched; the layer is created only on an existing data source, and no     *)
(* other operation of the writer creates a layer.                            *)
C17_ConstructionOrder ==
    /\ [][last'.op = "Writer" =>
            LET w == last'.w
                full == <<"GetDriverByName", "getcwd">> \o
                        (IF is_output_dir_written THEN << >> ELSE <<"mkdir">>) \o
                        <<"CreateDataSource", "CreateLayer">>
                n == Len(last'.calls)
            IN  /\ n <= Len(full)
                /\ last'.calls = SubSeq(full, 1, n)
                /\ exited' = << >> =>
                       /\ n = Len(full)
                       /\ writers'[w].state = "alive"
                       /\ is_output_dir_written'
                /\ last'.calls[n] = "CreateLayer" =>
                       writers'[w].m_data_source # NullDataSource
                /\ last'.diag = <<<<"SQLite driver not available">>>> =>
                       /\ n = 1
                       /\ is_output_dir_written' = is_output_dir_written
                       /\ mkdirs' = mkdirs]_vars
    /\ [][last'.op # "Writer" =>
            \A k \in 1 .. Len(last'.calls) : last'.calls[k] # "CreateLayer"]_vars

\* a first construction that ran all five steps
C17_Witness ==
    \E w \in Writers :
        /\ Ran("Writer", w)
        /\ last.calls = <<"GetDriverByName", "getcwd", "mkdir",
                          "CreateDataSource", "CreateLayer">>
        /\ writers[w].state = "alive"
        /\ writers[w].m_data_source # NullDataSource

(* C18: the diagnostic create_fields emits on a field-creation failure       *)
(* carries the failing field's name and the name of the layer the writer     *)
(* was constructed with (m_layer_name equals the constructor's layer_name).  *)
C18_DiagnosticNamesLayer ==
    \A w \in Writers :
        (Ran("create_fields", w) /\ last.diag # << >>) =>
            /\ last.diag[1][2] = last.arg[1][last.arg[2]]
            /\ last.diag[1][3] = writers[w].m_layer_name
            /\ last.diag[1][3] = writers[w].m_layer.name
            /\ last.diag[1][3] \in LayerNames

(* C19: is_output_dir_written is keyed to the process, not to the directory: *)
(* a construction that finds the flag set calls no mkdir whatever directory  *)
(* it names and, nothing else failing, goes from getcwd straight to          *)
(* CreateDataSource under the directory it was given; mkdir is only ever     *)
(* called for the directory of the first writer constructed.                 *)
C19_FlagIsProcessWide ==
    /\ [][(last'.op = "Writer" /\ is_output_dir_written) =>
            LET w == last'.w
            IN  /\ \A k \in 1 .. Len(last'.calls) : last'.calls[k] # "mkdir"
                /\ mkdirs' = mkdirs /\ fsDirs' = fsDirs
                /\ \A i \in 1 .. Len(last'.diag) :
                       last'.diag[i][1] # "Could not create directory"
                /\ last'.arg[4] = "none" =>
                       /\ last'.calls = <<"GetDriverByName", "getcwd",
                                          "CreateDataSource", "CreateLayer">>
                       /\ writers'[w].state = "alive"
                       /\ writers'[w].m_data_source[1] = last'.arg[1]]_vars
    /\ [][mkdirs' # mkdirs =>
            /\ last'.op = "Writer"
            /\ \A v \in Writers : writers[v].state = "none"
            /\ mkdirs' = <<last'.arg[1]>>]_vars

\* a later writer is alive under a directory that no writer ever created
C19_Witness ==
    \E w \in Writers :
        /\ Ran("Writer", w) /\ writers[w].state = "alive"
        /\ ~Issued("mkdir")
        /\ writers[w].m_data_source[1] \notin fsDirs
        /\ Len(mkdirs) = 1 /\ mkdirs[1] # writers[w].m_data_source[1]

(* C20: when two threads construct two writers concurrently, the test and    *)
(* the set of is_output_dir_written act as one atomic step (no two threads   *)
(* are past the test with the flag seen unset), so under every interleaving  *)
(* mkdir is called at most once and no construction ends the process         *)
(* because the directory was already created by the other.                   *)
C20_FlagAccessSerialized ==
    /\ Cardinality({t \in Threads : threads[t].at \in {"set", "mkdir"}}) <= 1
    /\ Len(mkdirs) <= 1
    /\ \A i \in 1 .. Len(last.diag) :
           ~(/\ last.diag[i][1] = "Could not create directory"
             /\ last.diag[i][2] \in fsDirs)

====
